---- MODULE Spec2Model ----
(***************************************************************************)
(* Model of utility/calendar_project/load_calendar.py: the structured      *)
(* (.ics) loader, the free-text "HH:MM-HH:MM DD.MM" extractor, the          *)
(* today-or-future filter, the per-day grouping and main()'s control flow.  *)
(*                                                                         *)
(* Python values are tagged records: None is [kind |-> "None"], a datetime  *)
(* is [kind |-> "datetime", ...] with tzinfo "None" when naive, an event    *)
(* dict is [kind |-> "event", title, begin, end], a list is                 *)
(* [kind |-> "list", items |-> <<...>>], a dict is [kind |-> "dict", ...]   *)
(* and a raised exception is [kind |-> "raise", exc |-> <type name>].       *)
(***************************************************************************)
EXTENDS Integers, Sequences, FiniteSets, TLC

VARIABLES
    entry,     \* the function the run entered the module by
    pc,        \* position of the running call
    now,       \* datetime.now(TIMEZONE) as filter_future_events reads it
    env,       \* what the file system, the dialogs and the host's clock give main()
    raw,       \* the .ics file handed to load_ics_file
    events,    \* the event list a call returned / was given
    grouped,   \* what group_events_by_date returned
    reports    \* message boxes shown and lines printed, in order

vars == <<entry, pc, now, env, raw, events, grouped, reports>>

----------------------------------------------------------------------------
(* Python values *)

None == [kind |-> "None"]

List(s) == [kind |-> "list", items |-> s]

Dict(f) == [kind |-> "dict", map |-> f]

Raise(e) == [kind |-> "raise", exc |-> e]

\* datetime(y, mo, d, h, mi, tzinfo=tz): the second is 0
Datetime(y, mo, d, h, mi, tz) ==
    [kind |-> "datetime", year |-> y, month |-> mo, day |-> d,
     hour |-> h, minute |-> mi, second |-> 0, tzinfo |-> tz]

isinstance_datetime(v) == v.kind = "datetime"

LOCAL_TZ_NAME == "Europe/Berlin"

TIMEZONE == LOCAL_TZ_NAME

get_local_zone == LOCAL_TZ_NAME

----------------------------------------------------------------------------
(* The proleptic Gregorian calendar of datetime.date *)

IsLeap(y) == (y % 4 = 0) /\ ((y % 100 # 0) \/ (y % 400 = 0))

DaysInMonth(y, mo) ==
    CASE mo = 2 -> IF IsLeap(y) THEN 29 ELSE 28
      [] mo \in {4, 6, 9, 11} -> 30
      [] OTHER -> 31

RECURSIVE DaysBeforeMonth(_, _)
DaysBeforeMonth(y, mo) ==
    IF mo = 1 THEN 0 ELSE DaysBeforeMonth(y, mo - 1) + DaysInMonth(y, mo - 1)

\* date.toordinal(): 0001-01-01 is day 1
ToOrdinal(y, mo, d) ==
    LET p == y - 1
    IN  p * 365 + (p \div 4) - (p \div 100) + (p \div 400)
          + DaysBeforeMonth(y, mo) + d

\* date.weekday(): Monday is 0, Sunday is 6
Weekday(y, mo, d) == (ToOrdinal(y, mo, d) + 6) % 7

\* datetime.date(): the wall-clock date, whatever the tzinfo
DateOf(dt) == [year |-> dt.year, month |-> dt.month, day |-> dt.day]

\* datetime.time()
TimeOf(dt) == [hour |-> dt.hour, minute |-> dt.minute, second |-> dt.second]

\* date.__ge__
DateGE(a, b) ==
    \/ a.year > b.year
    \/ a.year = b.year /\ a.month > b.month
    \/ a.year = b.year /\ a.month = b.month /\ a.day >= b.day

\* time.__lt__
TimeLT(a, b) ==
    \/ a.hour < b.hour
    \/ a.hour = b.hour /\ a.minute < b.minute
    \/ a.hour = b.hour /\ a.minute = b.minute /\ a.second < b.second

DigitStr(n) ==
    CASE n = 0 -> "0" [] n = 1 -> "1" [] n = 2 -> "2" [] n = 3 -> "3"
      [] n = 4 -> "4" [] n = 5 -> "5" [] n = 6 -> "6" [] n = 7 -> "7"
      [] n = 8 -> "8" [] n = 9 -> "9"

Pad2(n) == DigitStr((n \div 10) % 10) \o DigitStr(n % 10)

Pad4(n) == Pad2(n \div 100) \o Pad2(n % 100)

\* date.isoformat(): "YYYY-MM-DD"
IsoFormat(dd) == Pad4(dd.year) \o "-" \o Pad2(dd.month) \o "-" \o Pad2(dd.day)

\* the date one day after / before (y, mo, d)
NextDay(dd) ==
    IF dd.day < DaysInMonth(dd.year, dd.month)
        THEN [dd EXCEPT !.day = dd.day + 1]
    ELSE IF dd.month < 12
        THEN [dd EXCEPT !.month = dd.month + 1, !.day = 1]
    ELSE [year |-> dd.year + 1, month |-> 1, day |-> 1]

PrevDay(dd) ==
    IF dd.day > 1
        THEN [dd EXCEPT !.day = dd.day - 1]
    ELSE IF dd.month > 1
        THEN [dd EXCEPT !.month = dd.month - 1,
                        !.day = DaysInMonth(dd.year, dd.month - 1)]
    ELSE [year |-> dd.year - 1, month |-> 12, day |-> 31]

----------------------------------------------------------------------------
(* Time zones: datetime.replace(tzinfo=...) and datetime.astimezone(...) *)

SecondOfDay(dt) == dt.hour * 3600 + dt.minute * 60 + dt.second

\* the wall-clock fields as <<day number, second of the day>>
Stamp(dt) == <<ToOrdinal(dt.year, dt.month, dt.day), SecondOfDay(dt)>>

StampLT(a, b) == a[1] < b[1] \/ (a[1] = b[1] /\ a[2] < b[2])

StampLE(a, b) == a = b \/ StampLT(a, b)

\* shift the wall-clock fields by delta seconds, |delta| <= 86400; the year
\* of the result may be 0 or 10000, which datetime cannot hold
ShiftSeconds(dt, delta) ==
    LET w == SecondOfDay(dt) + delta
        dd == IF w < 0 THEN PrevDay(DateOf(dt))
              ELSE IF w >= 86400 THEN NextDay(DateOf(dt))
              ELSE DateOf(dt)
        m == (w + 86400) % 86400
    IN  [dt EXCEPT !.year = dd.year, !.month = dd.month, !.day = dd.day,
                   !.hour = m \div 3600, !.minute = (m % 3600) \div 60,
                   !.second = m % 60]

\* datetime.min.year <= year <= datetime.max.year
InRange(dt) == dt.year >= 1 /\ dt.year <= 9999

\* the last Sunday of a month
LastSunday(y, mo) ==
    CHOOSE d \in (DaysInMonth(y, mo) - 6)..DaysInMonth(y, mo) : Weekday(y, mo, d) = 6

\* the zone database's Europe/Berlin until 1980: each row is the UTC instant
\* <<year, month, day, hour, minute, second>> of a change and the utcoffset
\* in seconds from then on; local mean time, +0:53:28, before the first
BerlinTransitions ==
    <<<<1893, 3, 31, 23, 6, 32, 3600>>,
      <<1916, 4, 30, 22, 0, 0, 7200>>,
      <<1916, 9, 30, 23, 0, 0, 3600>>,
      <<1917, 4, 16, 1, 0, 0, 7200>>,
      <<1917, 9, 17, 1, 0, 0, 3600>>,
      <<1918, 4, 15, 1, 0, 0, 7200>>,
      <<1918, 9, 16, 1, 0, 0, 3600>>,
      <<1940, 4, 1, 1, 0, 0, 7200>>,
      <<1942, 11, 2, 1, 0, 0, 3600>>,
      <<1943, 3, 29, 1, 0, 0, 7200>>,
      <<1943, 10, 4, 1, 0, 0, 3600>>,
      <<1944, 4, 3, 1, 0, 0, 7200>>,
      <<1944, 10, 2, 1, 0, 0, 3600>>,
      <<1945, 4, 2, 1, 0, 0, 7200>>,
      <<1945, 5, 24, 0, 0, 0, 10800>>,
      <<1945, 9, 24, 0, 0, 0, 7200>>,
      <<1945, 11, 18, 1, 0, 0, 3600>>,
      <<1946, 4, 14, 1, 0, 0, 7200>>,
      <<1946, 10, 7, 1, 0, 0, 3600>>,
      <<1947, 4, 6, 2, 0, 0, 7200>>,
      <<1947, 5, 11, 1, 0, 0, 10800>>,
      <<1947, 6, 29, 0, 0, 0, 7200>>,
      <<1947, 10, 5, 1, 0, 0, 3600>>,
      <<1948, 4, 18, 1, 0, 0, 7200>>,
      <<1948, 10, 3, 1, 0, 0, 3600>>,
      <<1949, 4, 10, 1, 0, 0, 7200>>,
      <<1949, 10, 2, 1, 0, 0, 3600>>,
      <<1980, 4, 6, 1, 0, 0, 7200>>,
      <<1980, 9, 28, 1, 0, 0, 3600>>>>

\* +0:53:28 in seconds
BerlinLocalMeanTime == 53 * 60 + 28

TransitionStamp(t) == <<ToOrdinal(t[1], t[2], t[3]), t[4] * 3600 + t[5] * 60 + t[6]>>

\* utcoffset, in seconds, of Europe/Berlin at a UTC instant.  From 1981 on
\* summer time (+2 h) starts on the last Sunday of March at 01:00 UTC and
\* ends at 01:00 UTC on the last Sunday of September (until 1995) or of
\* October (from 1996 on); until 1980 the table above applies.
BerlinOffsetAtUtc(u) ==
    IF u.year >= 1981
        THEN LET y == u.year
                 last == IF y <= 1995 THEN 9 ELSE 10
                 start == <<ToOrdinal(y, 3, LastSunday(y, 3)), 3600>>
                 stop == <<ToOrdinal(y, last, LastSunday(y, last)), 3600>>
             IN  IF StampLE(start, Stamp(u)) /\ StampLT(Stamp(u), stop)
                     THEN 7200 ELSE 3600
        ELSE LET past == {i \in 1..Len(BerlinTransitions) :
                             StampLE(TransitionStamp(BerlinTransitions[i]), Stamp(u))}
             IN  IF past = {} THEN BerlinLocalMeanTime
                 ELSE BerlinTransitions[CHOOSE i \in past : \A j \in past : j <= i][7]

\* utcoffset, in seconds, of the fixed-offset zones an .ics entry may carry
FixedOffset(tz) ==
    CASE tz = "UTC" -> 0
      [] tz = "UTC-05:00" -> 0 - 5 * 3600

\* dt.replace(tzinfo=tz): the wall-clock fields are kept, no shift
ReplaceTzinfo(dt, tz) == [dt EXCEPT !.tzinfo = tz]

\* dt.astimezone(Europe/Berlin) of an aware dt: same instant, Berlin fields;
\* OverflowError when the UTC or the Berlin fields leave the years 1..9999
Astimezone(dt, tz) ==
    IF dt.tzinfo = tz THEN dt
    ELSE LET u == ShiftSeconds(dt, 0 - FixedOffset(dt.tzinfo))
         IN  IF ~InRange(u) THEN Raise("OverflowError")
             ELSE LET l == ShiftSeconds(u, BerlinOffsetAtUtc(u))
                  IN  IF ~InRange(l) THEN Raise("OverflowError")
                      ELSE ReplaceTzinfo(l, tz)

\* utcoffset, in seconds, of a datetime whose tzinfo is Europe/Berlin (fold 0):
\* the offset under which the fields are those of an instant, the larger one
\* when two are; in a gap the offset in force the day before
BerlinOffsetAtWall(dt) ==
    LET fits == {o \in {BerlinLocalMeanTime, 3600, 7200, 10800} :
                    LET u == ShiftSeconds(dt, 0 - o)
                    IN  InRange(u) /\ BerlinOffsetAtUtc(u) = o}
        before == ShiftSeconds(dt, 0 - 86400)
    IN  IF fits # {} THEN CHOOSE o \in fits : \A q \in fits : q <= o
        ELSE IF InRange(before) THEN BerlinOffsetAtUtc(before)
        ELSE BerlinLocalMeanTime

\* dt.utcoffset() of an aware dt, in seconds
UtcOffset(dt) ==
    IF dt.tzinfo = LOCAL_TZ_NAME THEN BerlinOffsetAtWall(dt)
    ELSE FixedOffset(dt.tzinfo)

----------------------------------------------------------------------------
(* The captured groups of one regex match are kept as written: a sequence   *)
(* of one-character strings, such as <<"0", "8", ":", "0", "0">>.           *)

RECURSIVE Join(_)
Join(cs) == IF cs = <<>> THEN "" ELSE cs[1] \o Join(Tail(cs))

DigitVal(c) ==
    CASE c = "0" -> 0 [] c = "1" -> 1 [] c = "2" -> 2 [] c = "3" -> 3
      [] c = "4" -> 4 [] c = "5" -> 5 [] c = "6" -> 6 [] c = "7" -> 7
      [] c = "8" -> 8 [] c = "9" -> 9

\* int() of one or two digits
Num(ds) == IF Len(ds) = 1 THEN DigitVal(ds[1])
           ELSE DigitVal(ds[1]) * 10 + DigitVal(ds[2])

\* "H:MM" / "HH:MM": the digits before the colon and the two after it
HourDigits(t) == SubSeq(t, 1, Len(t) - 3)

MinuteDigits(t) == SubSeq(t, Len(t) - 1, Len(t))

\* "D.M": the digits before and after the dot
DotAt(d) == CHOOSE i \in 1..Len(d) : d[i] = "."

DayDigits(d) == SubSeq(d, 1, DotAt(d) - 1)

MonthDigits(d) == SubSeq(d, DotAt(d) + 1, Len(d))

RECURSIVE Str(_)
Str(n) == IF n < 10 THEN DigitStr(n) ELSE Str(n \div 10) \o DigitStr(n % 10)

ValueError(msg) == [kind |-> "raise", exc |-> "ValueError", msg |-> msg]

----------------------------------------------------------------------------
(* datetime.strptime(f"{date_str}.{year} {time_str}", "%d.%m.%Y %H:%M")    *)

\* the string handed to strptime
DataString(date_str, year, time_str) ==
    Join(date_str) \o "." \o Str(year) \o " " \o Join(time_str)

\* the format's regular expression matches a prefix of the string: %d takes
\* 1..31, %m 1..12, %Y four digits, %H 0..23 (each with or without a leading
\* zero, up to the separator that follows); %M takes both minute digits when
\* the first is 0..5 and only the first otherwise
FormatMatches(date_str, year, time_str) ==
    /\ Num(DayDigits(date_str)) \in 1..31
    /\ Num(MonthDigits(date_str)) \in 1..12
    /\ year \in 1000..9999
    /\ Num(HourDigits(time_str)) \in 0..23

Strptime(date_str, year, time_str) ==
    LET data_string == DataString(date_str, year, time_str)
        mm == MinuteDigits(time_str)
        d == Num(DayDigits(date_str))
        mo == Num(MonthDigits(date_str))
    IN  IF ~FormatMatches(date_str, year, time_str)
            THEN ValueError("time data '" \o data_string
                     \o "' does not match format '%d.%m.%Y %H:%M'")
        ELSE IF DigitVal(mm[1]) > 5
            THEN ValueError("unconverted data remains: " \o mm[2])
        ELSE IF d > DaysInMonth(year, mo)
            THEN ValueError("day is out of range for month")
        ELSE Datetime(year, mo, d, Num(HourDigits(time_str)), Num(mm), "None")

----------------------------------------------------------------------------
(* load_ics_file *)

\* An event dict {"title", "begin", "end"}
Event(t, b, e) == [kind |-> "event", title |-> t, begin |-> b, end |-> e]

\* what the ics library hands out as ev.begin / ev.end: an Arrow-like object
\* with a .datetime attribute; the other values (None, a plain datetime, a
\* str) have no such attribute
Arrow(dt) == [kind |-> "arrow", datetime |-> dt]

\* a str, as the sequence of its characters
PyStr(chars) == [kind |-> "str", chars |-> chars]

\* try: v.datetime / except Exception: fallback
AccessDatetime(v, fallback) == IF v.kind = "arrow" THEN v.datetime ELSE fallback

\* the "if isinstance(.., datetime)" blocks: a naive value gets the local zone
\* attached, an aware one is converted to it and kept as it is when astimezone
\* raises, anything else is left alone
NormalizeLocal(v, local_tz) ==
    IF isinstance_datetime(v)
        THEN IF v.tzinfo = "None"
                 THEN ReplaceTzinfo(v, local_tz)
                 ELSE LET converted == Astimezone(v, local_tz)
                      IN  IF converted.kind = "raise" THEN v ELSE converted
        ELSE v

\* ev.name or "Untitled"
TitleOf(name) == IF name = "" THEN "Untitled" ELSE name

\* the dict appended for one entry of cal.events
LoadEntry(ev, local_tz) ==
    Event(TitleOf(ev.name),
          NormalizeLocal(AccessDatetime(ev.begin, ev.begin), local_tz),
          NormalizeLocal(AccessDatetime(ev.end, None), local_tz))

\* datetime.min, a naive datetime
DatetimeMin == Datetime(1, 1, 1, 0, 0, "None")

\* key=lambda e: e["begin"] or datetime.min (None and "" are falsy)
SortKey(e) ==
    IF e.begin = None \/ e.begin = PyStr(<<>>) THEN DatetimeMin ELSE e.begin

\* "<" raises TypeError between a str and a datetime and between a naive and
\* an aware datetime
Comparable(a, b) ==
    /\ a.kind = b.kind
    /\ a.kind = "datetime" => ((a.tzinfo = "None") <=> (b.tzinfo = "None"))

\* datetime.__lt__: the wall-clock fields of two operands with the same
\* tzinfo, the UTC instants of two aware operands with different ones
DatetimeLT(a, b) ==
    IF a.tzinfo = b.tzinfo THEN StampLT(Stamp(a), Stamp(b))
    ELSE StampLT(Stamp(ShiftSeconds(a, 0 - UtcOffset(a))),
                 Stamp(ShiftSeconds(b, 0 - UtcOffset(b))))

\* the code points of the characters a begin string is written with
CodePoints ==
    [c \in {"-", ".", "0", "1", "2", "3", "4", "5", "6", "7", "8", "9", ":", "T"} |->
        CASE c = "-" -> 45 [] c = "." -> 46 [] c = ":" -> 58 [] c = "T" -> 84
          [] OTHER -> 48 + DigitVal(c)]

\* str.__lt__: the first differing character decides, a proper prefix is less
RECURSIVE StrLT(_, _)
StrLT(a, b) ==
    IF b = <<>> THEN FALSE
    ELSE IF a = <<>> THEN TRUE
    ELSE IF a[1] = b[1] THEN StrLT(Tail(a), Tail(b))
    ELSE CodePoints[a[1]] < CodePoints[b[1]]

\* "<" between two sort keys of the same kind
KeyLT(a, b) ==
    IF a.kind = "str" THEN StrLT(a.chars, b.chars) ELSE DatetimeLT(a, b)

\* insert e behind every item whose key is not greater (list.sort is stable)
RECURSIVE InsertSorted(_, _)
InsertSorted(e, s) ==
    IF s = <<>> THEN <<e>>
    ELSE IF KeyLT(SortKey(e), SortKey(s[Len(s)]))
        THEN Append(InsertSorted(e, SubSeq(s, 1, Len(s) - 1)), s[Len(s)])
        ELSE Append(s, e)

RECURSIVE SortedPrefix(_, _)
SortedPrefix(s, n) ==
    IF n = 0 THEN <<>> ELSE InsertSorted(s[n], SortedPrefix(s, n - 1))

\* events.sort(key=...): TypeError as soon as two keys cannot be compared
SortByBegin(s) ==
    IF \E i, j \in 1..Len(s) : ~Comparable(SortKey(s[i]), SortKey(s[j]))
        THEN Raise("TypeError")
        ELSE List(SortedPrefix(s, Len(s)))

load_ics_file(file) ==
    IF ~file.exists THEN Raise("FileNotFoundError")
    ELSE LET local_tz == get_local_zone
             loaded == [i \in 1..Len(file.entries) |->
                           LoadEntry(file.entries[i], local_tz)]
         IN  SortByBegin(loaded)

----------------------------------------------------------------------------
(* filter_future_events and group_events_by_date *)

\* as IsFuture, but comparing the datetimes instead of their dates
IsFutureByTime(e, clock) == StampLE(Stamp(clock), Stamp(e.begin))

\* e["begin"].date() >= now.date()
IsFuture(e, clock) == DateGE(DateOf(e.begin), DateOf(clock))

\* iterating None is a TypeError, None.date() an AttributeError
filter_future_events(evs, clock) ==
    IF evs.kind # "list" THEN Raise("TypeError")
    ELSE IF \E i \in 1..Len(evs.items) : ~isinstance_datetime(evs.items[i].begin)
        THEN Raise("AttributeError")
    ELSE List(SelectSeq(evs.items, LAMBDA e : IsFuture(e, clock)))

EmptyDict == [k \in {} |-> <<>>]

\* as SetdefaultAppend, but grouped[key] = [e]: the key's list is replaced
SetdefaultOverwrite(g, key, e) ==
    [k \in DOMAIN g \cup {key} |-> IF k = key THEN <<e>> ELSE g[k]]

\* grouped.setdefault(key, []).append(e)
SetdefaultAppend(g, key, e) ==
    [k \in DOMAIN g \cup {key} |->
        IF k = key
            THEN Append(IF key \in DOMAIN g THEN g[key] ELSE <<>>, e)
            ELSE g[k]]

\* the for loop over future_events, from its i-th item on
RECURSIVE GroupLoop(_, _, _)
GroupLoop(future, i, g) ==
    IF i > Len(future) THEN g
    ELSE LET e == future[i]
             begin == e.begin
         IN  IF ~isinstance_datetime(begin)
                 THEN GroupLoop(future, i + 1, g)
                 ELSE GroupLoop(future, i + 1,
                          SetdefaultAppend(g, IsoFormat(DateOf(begin)), e))

group_events_by_date(evs, clock) ==
    LET future_events == filter_future_events(evs, clock)
    IN  IF future_events.kind = "raise" THEN future_events
        ELSE Dict(GroupLoop(future_events.items, 1, EmptyDict))

----------------------------------------------------------------------------
(* import_events_from_text *)

\* one shown message box or printed line
Report(via, title, text) == [via |-> via, title |-> title, text |-> text]

\* the three groups of one re.findall match, as written in the text:
\* start_str and end_str are "H:MM" or "HH:MM", date_str is "D.M" .. "DD.MM"
Match(st, en, dm) == [start |-> st, end |-> en, date |-> dm]

\* f"Skipping invalid pattern: {start_str}-{end_str} {date_str} ({e})"
SkipLine(m, e) ==
    "Skipping invalid pattern: " \o Join(m.start) \o "-" \o Join(m.end)
        \o " " \o Join(m.date) \o " (" \o e.msg \o ")"

\* datetime.strptime("16:30", "%H:%M").time()
Cutoff == [hour |-> 16, minute |-> 30, second |-> 0]

\* as ShiftTitle, but with <= in place of <
ShiftTitleInclusive(start_dt) ==
    IF TimeLT(Cutoff, TimeOf(start_dt)) THEN "X2" ELSE "X1"

\* title = "X1" if start_dt.time() < cutoff else "X2"
ShiftTitle(start_dt) == IF TimeLT(TimeOf(start_dt), Cutoff) THEN "X1" ELSE "X2"

\* the try body for one match, year being what datetime.now().year gives in
\* this iteration: the event dict, or the exception raised
MatchEvent(m, year) ==
    LET start_p == Strptime(m.date, year, m.start)
        end_p == Strptime(m.date, year, m.end)
    IN  IF start_p.kind = "raise" THEN start_p
        ELSE IF end_p.kind = "raise" THEN end_p
        ELSE LET start_dt == ReplaceTzinfo(start_p, TIMEZONE)
                 end_dt == ReplaceTzinfo(end_p, TIMEZONE)
             IN  Event(ShiftTitle(start_dt), start_dt, end_dt)

\* as ImportLoop, but with the try around the whole loop: the first match
\* that fails to parse ends it
RECURSIVE ImportLoopAbort(_, _, _, _, _)
ImportLoopAbort(matches, i, years, evs, out) ==
    IF i > Len(matches) THEN [evs |-> evs, out |-> out]
    ELSE LET r == MatchEvent(matches[i], years[i])
         IN  IF r.kind = "raise"
                 THEN [evs |-> evs,
                       out |-> Append(out, Report("print", "", SkipLine(matches[i], r)))]
                 ELSE ImportLoopAbort(matches, i + 1, years, Append(evs, r), out)

\* the for loop over matches from the i-th on: years[i] is the year of the
\* host's clock in the i-th iteration, evs collects the events and out the
\* "Skipping invalid pattern" lines
RECURSIVE ImportLoop(_, _, _, _, _)
ImportLoop(matches, i, years, evs, out) ==
    IF i > Len(matches) THEN [evs |-> evs, out |-> out]
    ELSE LET r == MatchEvent(matches[i], years[i])
         IN  IF r.kind = "raise"
                 THEN ImportLoop(matches, i + 1, years, evs,
                          Append(out, Report("print", "", SkipLine(matches[i], r))))
                 ELSE ImportLoop(matches, i + 1, years, Append(evs, r), out)

\* src is what the dialog and the file give: no file chosen, a file that
\* cannot be read (with the exception's text), or a text with its re.findall
\* matches; years are the readings of datetime.now().year, one per match.
\* The result is the returned value together with what was shown and printed.
import_events_from_text(src, years) ==
    IF src.kind = "cancel"
        THEN [ret |-> None, out |-> <<>>]
    ELSE IF src.kind = "unreadable"
        THEN [ret |-> None,
              out |-> <<Report("showerror", "Error",
                            "Could not read file: " \o src.error)>>]
    ELSE IF src.matches = <<>>
        THEN [ret |-> None,
              out |-> <<Report("showinfo", "No Matches",
                  "No valid time/date patterns found in the file.")>>]
    ELSE LET l == ImportLoop(src.matches, 1, years, <<>>, <<>>)
             added == Len(l.evs)
         IN  [ret |-> List(l.evs),
              out |-> l.out \o
                  <<Report("showinfo", "Import Complete",
                        Str(added) \o " events added from text file."),
                    Report("print", "", Str(Len(l.evs)) \o " Events ")>>]

----------------------------------------------------------------------------
(* Inputs *)

MaxMatches == 2    \* matches in the text file

MaxEntries == 2    \* entries of the .ics file

MaxEvents == 4     \* events of a list handed to group_events_by_date

SeqsUpTo(S, n) == UNION {[1..k -> S] : k \in 0..n}

\* the clock: a leap year's 21 October in the evening, and the next year's
\* 22 October in the morning
Nows == {Datetime(2024, 10, 21, 18, 0, TIMEZONE),
         Datetime(2025, 10, 22, 8, 0, TIMEZONE)}

\* the years the host's clock may be behind the clock of the later call of
\* filter_future_events when a match is parsed (a message box stays open
\* between the two)
MaxClockLag == 1

\* the matches a text may hold
Matches ==
    {Match(<<"8", ":", "0", "0">>, <<"9", ":", "0", "0">>, <<"2", "1", ".", "1", "0">>),
     Match(<<"1", "6", ":", "2", "9">>, <<"2", "0", ":", "1", "5">>, <<"2", "1", ".", "1", "0">>),
     Match(<<"1", "6", ":", "3", "0">>, <<"9", ":", "0", "0">>, <<"2", "1", ".", "1", "0">>),
     Match(<<"1", "6", ":", "3", "0">>, <<"0", "9", ":", "0", "0">>, <<"2", "2", ".", "1", "0">>),
     Match(<<"0", "8", ":", "0", "0">>, <<"2", "4", ":", "0", "0">>, <<"2", "1", ".", "1", "0">>),
     Match(<<"2", "5", ":", "0", "0">>, <<"9", ":", "0", "0">>, <<"2", "2", ".", "1", "0">>),
     Match(<<"8", ":", "0", "0">>, <<"9", ":", "0", "0">>, <<"2", "9", ".", "0", "2">>),
     Match(<<"1", "7", ":", "0", "0">>, <<"2", "0", ":", "6", "0">>, <<"2", "2", ".", "1", "0">>),
     Match(<<"8", ":", "0", "0">>, <<"9", ":", "0", "0">>, <<"3", "1", ".", "4">>)}

TextSources ==
    {[kind |-> "cancel", matches |-> <<>>, error |-> ""],
     [kind |-> "unreadable", matches |-> <<>>,
      error |-> "[Errno 13] Permission denied: 'shifts.txt'"]}
    \cup {[kind |-> "text", matches |-> ms, error |-> ""] :
              ms \in SeqsUpTo(Matches, MaxMatches)}

\* the readings of datetime.now().year, one per match, while the clock of the
\* later call of filter_future_events shows `clock`: the host's clock does
\* not run backwards, its zone is less than a day ahead of TIMEZONE, and it
\* is read earlier
YearReadings(n, clock) ==
    {ys \in [1..n -> (clock.year - MaxClockLag)..(clock.year + 1)] :
        \A i, j \in 1..n : i <= j => ys[i] <= ys[j]}

\* Path.home() / "Downloads" / "my_events.ics"
DEFAULT_ICS_PATH == "/home/user/Downloads/my_events.ics"

\* main()'s surroundings: whether DEFAULT_ICS_PATH exists, the .ics file the
\* user picks when asked ("" when the dialog is cancelled), the text source
\* and the years read while parsing its matches
Envs(clock) ==
    UNION {{[default_exists |-> de, chosen |-> ch, src |-> src, years |-> ys] :
               de \in BOOLEAN, ch \in {"", "/home/user/calendar.ics"},
               ys \in YearReadings(Len(src.matches), clock)} :
           src \in TextSources}

NoEnv == [default_exists |-> TRUE, chosen |-> "",
          src |-> [kind |-> "cancel", matches |-> <<>>, error |-> ""],
          years |-> <<>>]

\* what an .ics entry's begin can be: missing; Arrow-like with a naive
\* datetime or one aware in another zone (late evening UTC, the two sides of
\* the end of summer time, a day of October 1995, and the last half hour
\* datetime can hold); a plain datetime, naive or aware; a str
RawBegins ==
    {None,
     Arrow(Datetime(2024, 10, 21, 17, 0, "None")),
     Arrow(Datetime(2024, 10, 21, 23, 30, "UTC")),
     Arrow(Datetime(2024, 10, 27, 0, 30, "UTC")),
     Arrow(Datetime(2024, 10, 26, 20, 15, "UTC-05:00")),
     Arrow(Datetime(1995, 10, 10, 12, 0, "UTC")),
     Arrow(Datetime(9999, 12, 31, 23, 30, "UTC")),
     Datetime(2024, 10, 21, 17, 0, "None"),
     Datetime(2024, 10, 21, 17, 0, "UTC"),
     PyStr(<<"2", "0", "2", "4", "-", "1", "0", "-", "2", "1">>),
     PyStr(<<"2", "0", "2", "4", "-", "1", "0", "-", "2", "0">>)}

\* an entry's end: missing, Arrow-like, or a plain datetime
RawEnds ==
    {None,
     Arrow(Datetime(2024, 10, 21, 16, 0, "UTC")),
     Datetime(2024, 10, 21, 18, 0, "UTC")}

\* entries with every begin, and entries with every name and end
RawEntries ==
    {[name |-> "Shift", begin |-> b, end |-> None] : b \in RawBegins}
    \cup {[name |-> n, begin |-> Arrow(Datetime(2024, 10, 21, 23, 30, "UTC")),
            end |-> e] : n \in {"", "Shift"}, e \in RawEnds}

IcsFiles ==
    {[exists |-> FALSE, entries |-> <<>>]}
    \cup {[exists |-> TRUE, entries |-> es] : es \in SeqsUpTo(RawEntries, MaxEntries)}

NoFile == [exists |-> FALSE, entries |-> <<>>]

\* events a caller may hand to group_events_by_date: begin missing, yesterday,
\* today before and after the clock's time of day, tomorrow
GivenEvents ==
    {Event("X1", b, None) :
        b \in {None,
               Datetime(2024, 10, 20, 23, 59, TIMEZONE),
               Datetime(2024, 10, 21, 8, 0, TIMEZONE),
               Datetime(2024, 10, 21, 19, 0, TIMEZONE),
               Datetime(2024, 10, 22, 7, 0, TIMEZONE)}}

----------------------------------------------------------------------------
(* The runs: main(), or a direct call of load_ics_file followed by          *)
(* group_events_by_date, or a direct call of group_events_by_date           *)

InitMain ==
    /\ entry = "main"
    /\ pc = "main"
    /\ now \in Nows
    /\ env \in Envs(now)
    /\ raw = NoFile
    /\ events = None
    /\ grouped = None
    /\ reports = <<>>

InitLoad ==
    /\ entry = "load_ics_file"
    /\ pc = "load"
    /\ now \in Nows
    /\ env = NoEnv
    /\ raw \in IcsFiles
    /\ events = None
    /\ grouped = None
    /\ reports = <<>>

InitGroup ==
    /\ entry = "group_events_by_date"
    /\ pc = "group"
    /\ now \in Nows
    /\ env = NoEnv
    /\ raw = NoFile
    /\ events \in {List(es) : es \in SeqsUpTo(GivenEvents, MaxEvents)}
    /\ grouped = None
    /\ reports = <<>>

Init == InitMain \/ InitLoad \/ InitGroup

\* main()'s ics_path once a file is there
IcsPath == IF env.default_exists THEN DEFAULT_ICS_PATH ELSE env.chosen

SelectIcsBox ==
    Report("showinfo", "Select .ics file",
        "Default .ics not found at:\n" \o DEFAULT_ICS_PATH
            \o "\n\nPlease select an .ics file.")

\* main(), lines 317-328: the default .ics path, or the file dialog
MainSelectIcs ==
    /\ entry = "main" /\ pc = "main"
    /\ IF env.default_exists
           THEN pc' = "import" /\ reports' = reports
       ELSE IF env.chosen = ""
           THEN /\ pc' = "exit"
                /\ reports' = reports \o
                      <<SelectIcsBox,
                        Report("print", "", "No .ics file selected. Exiting.")>>
       ELSE /\ pc' = "import"
            /\ reports' = Append(reports, SelectIcsBox)
    /\ UNCHANGED <<entry, now, env, raw, events, grouped>>

\* main(), lines 330-336: events = import_events_from_text()
MainImport ==
    /\ entry = "main" /\ pc = "import"
    /\ LET r == import_events_from_text(env.src, env.years)
       IN  /\ events' = r.ret
           /\ reports' = reports \o r.out
    /\ pc' = "group"
    /\ UNCHANGED <<entry, now, env, raw, grouped>>

\* main(), lines 338-347: grouped = group_events_by_date(events); an exception
\* is not caught here and ends the program with a traceback
MainGroup ==
    /\ entry = "main" /\ pc = "group"
    /\ LET g == group_events_by_date(events, now)
       IN  /\ grouped' = g
           /\ IF g.kind = "raise"
                  THEN /\ pc' = "crash"
                       /\ reports' = Append(reports,
                              Report("traceback", "", g.exc))
              ELSE IF DOMAIN g.map = {}
                  THEN /\ pc' = "exit"
                       /\ reports' = reports \o
                              <<Report("showinfo", "No events",
                                    "No events found in " \o IcsPath),
                                Report("print", "", "No events to show. Exiting.")>>
              ELSE pc' = "gui" /\ reports' = reports
    /\ UNCHANGED <<entry, now, env, raw, events>>

\* main(), line 350: build_day_cards_gui(grouped, events) and its info label
MainBuildGui ==
    /\ entry = "main" /\ pc = "gui"
    /\ reports' = Append(reports,
           Report("label", "Event Days",
               "Showing " \o Str(Cardinality(DOMAIN grouped.map)) \o " DAYS with "
                   \o Str(Len(events.items)) \o " HOURS"))
    /\ pc' = "mainloop"
    /\ UNCHANGED <<entry, now, env, raw, events, grouped>>

\* a direct call events = load_ics_file(path)
CallLoadIcsFile ==
    /\ entry = "load_ics_file" /\ pc = "load"
    /\ events' = load_ics_file(raw)
    /\ pc' = IF events'.kind = "raise" THEN "raised" ELSE "group"
    /\ UNCHANGED <<entry, now, env, raw, grouped, reports>>

\* a direct call grouped = group_events_by_date(events)
CallGroupEventsByDate ==
    /\ entry # "main" /\ pc = "group"
    /\ grouped' = group_events_by_date(events, now)
    /\ pc' = IF grouped'.kind = "raise" THEN "raised" ELSE "returned"
    /\ UNCHANGED <<entry, now, env, raw, events, reports>>

Next ==
    \/ MainSelectIcs
    \/ MainImport
    \/ MainGroup
    \/ MainBuildGui
    \/ CallLoadIcsFile
    \/ CallGroupEventsByDate

Spec == Init /\ [][Next]_vars

----------------------------------------------------------------------------
(* Properties *)

\* the run has been through import_events_from_text
Imported ==
    /\ entry = "main"
    /\ \/ pc \in {"group", "crash", "gui", "mainloop"}
       \/ pc = "exit" /\ grouped.kind # "None"

\* group_events_by_date has been called on a list
GroupedList == grouped.kind # "None" /\ events.kind = "list"

AllHaveBegin == \A i \in 1..Len(events.items) : events.items[i].begin.kind = "datetime"

\* the day number of a datetime's calendar date
DayNumber(dt) == ToOrdinal(dt.year, dt.month, dt.day)

OnOrAfterToday(e) == DayNumber(e.begin) >= DayNumber(now)

\* e is in the list of some key of the returned mapping
Retained(e) ==
    \E k \in DOMAIN grouped.map :
        \E j \in 1..Len(grouped.map[k]) : grouped.map[k][j] = e

\* C1: group retains an event if and only if the calendar date of its begin
\* is on or after the calendar date of now, whatever the times of day (for
\* every list of events that all have a begin, group returns a mapping)
C1_RetainsByDate ==
    (GroupedList /\ AllHaveBegin) =>
        /\ grouped.kind = "dict"
        /\ \A i \in 1..Len(events.items) :
               Retained(events.items[i]) <=> OnOrAfterToday(events.items[i])

\* an event of today, earlier in the day than now, is retained while an event
\* of yesterday is not
C1_Witness ==
    /\ GroupedList /\ AllHaveBegin /\ grouped.kind = "dict"
    /\ \E i, j \in 1..Len(events.items) :
           /\ DayNumber(events.items[i].begin) = DayNumber(now)
           /\ StampLT(Stamp(events.items[i].begin), Stamp(now))
           /\ Retained(events.items[i])
           /\ DayNumber(events.items[j].begin) < DayNumber(now)
           /\ ~Retained(events.items[j])

\* the retained events, in input order
RetainedInput == SelectSeq(events.items, OnOrAfterToday)

KeyOf(e) == IsoFormat(DateOf(e.begin))

\* C2: the returned mapping's keys are exactly the ISO dates of the retained
\* events (one key per date), no key maps to an empty list, and each key's
\* list is the subsequence of the retained input events of that date
C2_GroupsExactly ==
    grouped.kind = "dict" =>
        /\ DOMAIN grouped.map = {KeyOf(e) : e \in {RetainedInput[i] : i \in 1..Len(RetainedInput)}}
        /\ \A k \in DOMAIN grouped.map :
               /\ grouped.map[k] # <<>>
               /\ Len(k) = 10
               /\ grouped.map[k] = SelectSeq(RetainedInput, LAMBDA e : KeyOf(e) = k)
        /\ \A i, j \in 1..Len(RetainedInput) :
               KeyOf(RetainedInput[i]) = KeyOf(RetainedInput[j])
                   => DayNumber(RetainedInput[i].begin) = DayNumber(RetainedInput[j].begin)

\* a mapping with two keys, one of them with two events, and a dropped event
C2_Witness ==
    /\ grouped.kind = "dict"
    /\ Cardinality(DOMAIN grouped.map) = 2
    /\ \E k \in DOMAIN grouped.map : Len(grouped.map[k]) = 2
    /\ Len(RetainedInput) < Len(events.items)

\* C3: extraction on a text without any match returns an empty list
C3_EmptyListWhenNoMatch ==
    (Imported /\ env.src.kind = "text" /\ env.src.matches = <<>>) =>
        events = List(<<>>)

\* what group would return were the events without a begin not in the list
GroupOfRest ==
    group_events_by_date(
        List(SelectSeq(events.items, LAMBDA e : e.begin.kind = "datetime")), now)

\* C4: group drops an event without a valid begin silently and returns the
\* grouping of the remaining events
C4_DropsMissingBegin ==
    (GroupedList /\ ~AllHaveBegin) =>
        /\ grouped.kind = "dict"
        /\ grouped = GroupOfRest

\* C5: in every mapping the pipeline produces (loader or extractor output
\* passed to group) each key's list is ordered by begin ascending
C5_GroupsOrderedByBegin ==
    (entry \in {"main", "load_ics_file"} /\ grouped.kind = "dict") =>
        \A k \in DOMAIN grouped.map :
            \A i, j \in 1..Len(grouped.map[k]) :
                i < j => ~DatetimeLT(grouped.map[k][j].begin, grouped.map[k][i].begin)

\* the source was read and no event was found
ZeroResults ==
    /\ env.src.kind = "text"
    /\ events.kind = "list" => events.items = <<>>

Unavailable == {s \in TextSources : s.kind \in {"cancel", "unreadable"}}

\* C6: an ingest pass that read the source and found nothing returns a value
\* and shows a report that differ from those of every unavailable source
C6_ZeroResultsDistinct ==
    (Imported /\ ZeroResults) =>
        \A s \in Unavailable :
            /\ import_events_from_text(s, <<>>).ret # events
            /\ import_events_from_text(s, <<>>).out
                   # import_events_from_text(env.src, env.years).out

\* a captured clock time / day.month that strptime accepts
ValidClock(hm) == hm[1] < 24 /\ hm[2] < 60

MonthLengths(y) ==
    <<31, IF IsLeap(y) THEN 29 ELSE 28, 31, 30, 31, 30, 31, 31, 30, 31, 30, 31>>

ValidDayMonth(dm, y) ==
    /\ dm[2] >= 1 /\ dm[2] <= 12
    /\ dm[1] >= 1 /\ dm[1] <= MonthLengths(y)[dm[2]]

\* the numbers a captured "H:MM" and a captured "D.M" spell
ClockOf(t) == <<Num(HourDigits(t)), Num(MinuteDigits(t))>>

DayMonthOf(d) == <<Num(DayDigits(d)), Num(MonthDigits(d))>>

\* the i-th match parses in the year read for it
Parseable(i) ==
    LET m == env.src.matches[i]
    IN  /\ ValidDayMonth(DayMonthOf(m.date), env.years[i])
        /\ ValidClock(ClockOf(m.start))
        /\ ValidClock(ClockOf(m.end))

\* the indices of the parseable matches, ascending
RECURSIVE ParseableUpTo(_)
ParseableUpTo(n) ==
    IF n = 0 THEN <<>>
    ELSE IF Parseable(n)
        THEN Append(ParseableUpTo(n - 1), n)
        ELSE ParseableUpTo(n - 1)

ParseableIndices == ParseableUpTo(Len(env.src.matches))

\* C7: the extraction returns exactly one event for each parseable match, in
\* scan order, and none for the others; an unparseable match does not end it
C7_SkipsUnparseable ==
    (Imported /\ env.src.kind = "text" /\ env.src.matches # <<>>) =>
        /\ events.kind = "list"
        /\ Len(events.items) = Len(ParseableIndices)
        /\ \A j \in 1..Len(ParseableIndices) :
               LET m == env.src.matches[ParseableIndices[j]]
                   y == env.years[ParseableIndices[j]]
                   e == events.items[j]
               IN  /\ <<e.begin.day, e.begin.month>> = DayMonthOf(m.date)
                   /\ <<e.begin.hour, e.begin.minute>> = ClockOf(m.start)
                   /\ <<e.end.day, e.end.month>> = DayMonthOf(m.date)
                   /\ <<e.end.hour, e.end.minute>> = ClockOf(m.end)
                   /\ e.begin.year = y /\ e.end.year = y

\* an unparseable match followed by a parseable one, which is returned
C7_Witness ==
    /\ Imported /\ env.src.kind = "text" /\ Len(env.src.matches) = 2
    /\ ~Parseable(1)
    /\ Parseable(2)
    /\ events.kind = "list" /\ Len(events.items) = 1
    /\ <<events.items[1].begin.hour, events.items[1].begin.minute>>
           = ClockOf(env.src.matches[2].start)

MinuteOfDay(dt) == dt.hour * 60 + dt.minute

\* C8: an extracted event is titled "X1" if its start is strictly earlier
\* than 16:30 and "X2" otherwise, whatever its end
C8_TitleByCutoff ==
    (Imported /\ events.kind = "list") =>
        \A i \in 1..Len(events.items) :
            events.items[i].title =
                IF MinuteOfDay(events.items[i].begin) < 16 * 60 + 30
                    THEN "X1" ELSE "X2"

\* an event starting at 16:30 titled "X2" although it ends before the
\* cutoff, next to one starting at 16:29 titled "X1"
C8_Witness ==
    /\ Imported /\ events.kind = "list"
    /\ \E i, j \in 1..Len(events.items) :
           /\ MinuteOfDay(events.items[i].begin) = 16 * 60 + 30
           /\ MinuteOfDay(events.items[i].end) < 16 * 60 + 30
           /\ events.items[i].title = "X2"
           /\ MinuteOfDay(events.items[j].begin) = 16 * 60 + 29
           /\ events.items[j].title = "X1"

\* C9: every event the structured load returns has a begin that is present
\* and zone-aware in the local zone
C9_BeginPresentAndAware ==
    (entry = "load_ics_file" /\ events.kind = "list") =>
        \A i \in 1..Len(events.items) :
            /\ events.items[i].begin.kind = "datetime"
            /\ events.items[i].begin.tzinfo = LOCAL_TZ_NAME

\* C10: the structured load of an existing file returns its events ordered
\* ascending by begin with the entries without a begin first, whatever the
\* mix of entries with and without a begin
C10_SortedWithSentinel ==
    (entry = "load_ics_file" /\ pc # "load" /\ raw.exists) =>
        /\ events.kind = "list"
        /\ Len(events.items) = Len(raw.entries)
        /\ \A i, j \in 1..Len(events.items) :
               i < j =>
                   /\ events.items[j].begin = None => events.items[i].begin = None
                   /\ (/\ isinstance_datetime(events.items[i].begin)
                       /\ isinstance_datetime(events.items[j].begin))
                          => ~DatetimeLT(events.items[j].begin, events.items[i].begin)

====
